---- MODULE Spec2Model ----
(***************************************************************************)
(* Model of the retrieval index of hospital-gpt:                           *)
(*   backend/embeddings.py  HospitalEmbeddings (update_embeddings,         *)
(*                          search_embeddings, _fallback_search, ...)      *)
(*   backend/rag_engine.py  the caller's reading of a search result        *)
(*                                                                         *)
(* The corpus text is represented by the segments that                     *)
(* content.split('\n\n') yields; a segment is a body with or without       *)
(* surrounding whitespace.  Vectors are pairs of integers in units of 1/2, *)
(* so squared L2 distances are in units of 1/4.                            *)
(***************************************************************************)
EXTENDS Integers, Sequences, FiniteSets, TLC

\* ------------------------------------------------------------------ bounds
MaxSegs == 1        \* segments in a corpus text
MaxEdits == 1       \* changes made to the files from outside the process
MaxRestarts == 1    \* process restarts (a new HospitalEmbeddings instance)
MaxTopK == 2        \* largest top_k a caller passes
MaxIndexLen == 2    \* most vectors in an index that searches are studied on
MaxContexts == 2    \* most context chunks handed to the deduplication
MaxCtxLen == 4      \* most characters in one of them
MaxBatch == 3       \* most texts in one embedding request
MaxTextLen == 7     \* most symbols in a corpus text that is chunked
MaxCalls == 2       \* calls of the conversation manager one caller makes
MaxLimit == 2       \* largest limit passed to get_conversation_history
MaxQueryLen == 5    \* symbols in a query handed to the query handler
MaxQueries == 1     \* calls of handle_query in a run
NThreads == 2       \* callers of the one shared instance

\* -------------------------------------------------------- program constants
MinChunkLen == 50
InitMinChunkLen == 20
RelevanceThreshold == 4     \* the 1.0 of "distance < 1.0", in units of 1/4

Threads == 1..NThreads
\* the thread that imports the module and so constructs the singleton
MainThread == CHOOSE t \in Threads : \A u \in Threads : t <= u

\* --------------------------------------------------------------- the corpus
\* len(chunk.strip()) of a body: "pa" and "pb" are paragraphs, "ps" a short line
BodyLen(b) ==
    CASE b = "pa" -> 60 [] b = "pb" -> 72 [] b = "pc" -> 51 [] b = "ps" -> 12 [] OTHER -> 0

Segments == { [body |-> "pa", pad |-> FALSE], [body |-> "pb", pad |-> TRUE],
              [body |-> "ps", pad |-> FALSE] }

RECURSIVE SeqsUpTo(_, _)
SeqsUpTo(S, n) ==
    IF n = 0 THEN { <<>> }
    ELSE LET shorter == SeqsUpTo(S, n - 1)
         IN  shorter \cup { Append(s, x) : s \in { q \in shorter : Len(q) = n - 1 }, x \in S }

Texts == SeqsUpTo(Segments, MaxSegs)

\* the corpus file: missing, or a file holding a text
NoCorpus == [exists |-> FALSE, text |-> <<>>]
Corpora == { [exists |-> TRUE, text |-> x] : x \in Texts } \cup { NoCorpus }

\* str.strip(): the body without the surrounding whitespace
Strip(seg) == seg.body

KeepSegment(seg) == Strip(seg) # "" /\ BodyLen(Strip(seg)) > MinChunkLen

\* the chunk list of update_embeddings
SplitChunks(text) ==
    LET kept == SelectSeq(text, KeepSegment)
    IN  [i \in 1..Len(kept) |-> Strip(kept[i])]

\* ---------------------------------------------------------- the fingerprint
\* hashlib.md5(...).hexdigest(): one digest per content; "" when the file cannot
\* be read; None is what dict.get gives for a cache without 'file_hash'
Md5(text) == <<"md5", text>>
HashError == <<"", <<>>>>
HashNone == <<"None", <<>>>>

_compute_file_hash(c) == IF c.exists THEN Md5(c.text) ELSE HashError

\* ------------------------------------------------------------- the embedder
ZeroVec == <<0, 0>>

\* the vector the embedding service answers for a text
ServiceVec(s) ==
    CASE s = "pa" -> <<2, 0>>
      [] s = "pb" -> <<0, 2>>
      [] s = "pc" -> <<1, 0>>
      [] s = "qa" -> <<2, 1>>
      [] s = "qb" -> <<1, 2>>
      [] OTHER -> <<1, 1>>

\* an embedder that gives up at a failure and returns nothing
_generate_embeddings_GiveUp(texts, ok) ==
    IF ok THEN [i \in 1..Len(texts) |-> [vec |-> ServiceVec(texts[i]), of |-> texts[i]]]
    ELSE <<>>

\* _generate_embeddings: one vector per text, or all zeros when the service
\* raised for any item.  Each vector carries the text it was computed for (of),
\* which the program does not store: it is kept to state the claims.
_generate_embeddings(texts, ok) ==
    [i \in 1..Len(texts) |->
        [vec |-> IF ok THEN ServiceVec(texts[i]) ELSE ZeroVec, of |-> texts[i]]]

\* np.array(embeddings) of an empty list has shape (0,), which index.add rejects;
\* np.zeros((0, dimension)) is accepted but is only produced on a failure, and the
\* loop over zero texts cannot fail
AddRaises(embs) == Len(embs) = 0

\* ------------------------------------------------------------ the cache file
EmptyCache == [has |-> FALSE, file_hash |-> HashNone, chunks |-> <<>>, num_embeddings |-> 0]

CacheData(h, chunks) ==
    [has |-> TRUE, file_hash |-> h, chunks |-> chunks, num_embeddings |-> Len(chunks)]

NoFile == [state |-> "none", data |-> EmptyCache, vecs |-> <<>>]
\* no file either, and it was there before: somebody removed it
DeletedFile == [state |-> "deleted", data |-> EmptyCache, vecs |-> <<>>]
CorruptFile == [state |-> "corrupt", data |-> EmptyCache, vecs |-> <<>>]
CacheFile(d) == [state |-> "ok", data |-> d, vecs |-> <<>>]
IndexFile(v) == [state |-> "ok", data |-> EmptyCache, vecs |-> v]

\* _load_embeddings_cache: the document, or {} when missing or unreadable
_load_embeddings_cache(f) == IF f.state = "ok" THEN f.data ELSE EmptyCache

\* os.path.exists
PathExists(f) == f.state \notin {"none", "deleted"}

\* the skip condition with the test of the index file left out
NoChangesDetected_HashOnly(cache, current_hash, indexFile) ==
    cache.file_hash = current_hash

\* the staleness test of update_embeddings, negated: the skip condition
NoChangesDetected(cache, current_hash, indexFile) ==
    cache.file_hash = current_hash /\ PathExists(indexFile)

\* ---------------------------------------------------------- the vector index
\* squared L2 distance, in units of 1/4
Dist(u, v) == (u[1] - v[1]) * (u[1] - v[1]) + (u[2] - v[2]) * (u[2] - v[2])

\* the distance faiss reports for a missing neighbour (3.4e38), with label -1
FltMax == 2^30
NoNeighbour == [pos |-> -1, dist |-> FltMax]

RECURSIVE NearestFrom(_, _, _, _)
NearestFrom(idx, v, k, rest) ==
    IF k = 0 THEN <<>>
    ELSE IF rest = {} THEN <<NoNeighbour>> \o NearestFrom(idx, v, k - 1, rest)
    ELSE LET best == CHOOSE i \in rest : \A j \in rest :
                        \/ Dist(idx[i].vec, v) < Dist(idx[j].vec, v)
                        \/ Dist(idx[i].vec, v) = Dist(idx[j].vec, v) /\ i <= j
         IN  <<[pos |-> best, dist |-> Dist(idx[best].vec, v)]>>
                \o NearestFrom(idx, v, k - 1, rest \ {best})

\* an index that answers in stored order
IndexSearch_StoredOrder(idx, v, k) ==
    [i \in 1..k |-> IF i <= Len(idx) THEN [pos |-> i, dist |-> Dist(idx[i].vec, v)]
                    ELSE NoNeighbour]

\* index.search(query, top_k): top_k entries, nearest first, padded with -1
IndexSearch(idx, v, k) == NearestFrom(idx, v, k, 1..Len(idx))

\* a filter that keeps every entry of the search result
Relevant_KeepAll(n) == n.dist <= FltMax

\* distance < 1.0
Relevant(n) == n.dist < RelevanceThreshold

\* chunks[i] of a Python list (positions here count from 1; -1 is the last one)
SubscriptRaises(chunks, i) == IF i = -1 THEN Len(chunks) = 0 ELSE i > Len(chunks)
Subscript(chunks, i) == IF i = -1 THEN chunks[Len(chunks)] ELSE chunks[i]

\* ------------------------------------------------------------- the fallback
fallback_chunks == <<"fb1", "fb2", "fb3", "fb4", "fb5">>

Queries == {"qa", "qb"}

\* any(keyword in query_lower for keyword in ['bed', ...]): "qa" asks about beds
HasKeyword(q) == q = "qa"

Take(s, k) == SubSeq(s, 1, IF k < Len(s) THEN k ELSE Len(s))

_fallback_search(q, k) ==
    LET keyword_matches == SelectSeq(fallback_chunks, LAMBDA c : HasKeyword(q))
    IN  IF Len(keyword_matches) > 0 THEN Take(keyword_matches, k)
        ELSE Take(fallback_chunks, k)

\* the relevance filter and the mapping to chunks of search_embeddings; an
\* IndexError inside the loop ends in the except branch, the fallback.  via names
\* the return statement taken, which the caller cannot see: it gets items
RelevantNeighbours(nb) == SelectSeq(nb, Relevant)

SearchResult(chunks, nb, q, k) ==
    LET hits == RelevantNeighbours(nb)
    IN  IF \E i \in 1..Len(hits) : SubscriptRaises(chunks, hits[i].pos)
        THEN [via |-> "error", items |-> _fallback_search(q, k)]
        ELSE IF Len(hits) = 0
        THEN [via |-> "no_relevant", items |-> _fallback_search(q, k)]
        ELSE [via |-> "index", items |-> [i \in 1..Len(hits) |-> Subscript(chunks, hits[i].pos)]]

\* lines 288-310: index.search on self.index, then the filter and the mapping;
\* whatever index.search raises ends in the same except branch
SearchOutcome_NoExcept(chunks, idx, qvec, q, k, searchOk) ==
    IF ~searchOk \/ SearchResult(chunks, IndexSearch(idx, qvec, k), q, k).via = "error"
    THEN [via |-> "raised", items |-> <<>>]
    ELSE SearchResult(chunks, IndexSearch(idx, qvec, k), q, k)

SearchOutcome(chunks, idx, qvec, q, k, searchOk) ==
    IF searchOk THEN SearchResult(chunks, IndexSearch(idx, qvec, k), q, k)
    ELSE [via |-> "error", items |-> _fallback_search(q, k)]

\* rag_engine.process_query: "if not contexts" is the only no-data test a caller makes
NoContexts(contexts) == Len(contexts) = 0

\* ------------------------------------------------------------------ state
VARIABLES
    corpus,            \* the hospital data file
    disk_index,        \* the file at index_path
    disk_cache,        \* the file at embeddings_cache_path
    index,             \* self.index: the vectors of the in-memory faiss index
    embeddings_cache,  \* self.embeddings_cache
    th,                \* per caller: the call in progress and its locals
    constructing,      \* __init__ has not returned yet
    snapshot,          \* history: how the instance got what it serves
    edits,             \* outside changes so far
    restarts,          \* restarts so far
    fcall,             \* a call of a function that keeps no state: its name,
                       \* its arguments and, once applied, its result
    conversations,     \* the files of the conversation manager's storage_dir
    cm                 \* per caller: its call of the conversation manager or of
                       \* the query handler, and the call's locals

vars == <<corpus, disk_index, disk_cache, index, embeddings_cache, th,
          constructing, snapshot, edits, restarts, fcall, conversations, cm>>

\* no such call is being followed
NoCall == [fn |-> "none", arg |-> <<>>, out |-> <<>>, pc |-> "idle"]

\* The conversation files.  uuid4 gives create_conversation an identifier nobody
\* has used; NeverCreated is an identifier a caller made up.
ConvIds == {"c1"}
NeverCreated == "cx"
AskedIds == ConvIds \cup {NeverCreated}

\* a conversation document: its messages and its context (a set of keys)
Doc(messages, context) == [messages |-> messages, context |-> context]

\* no file; a file holding a document; a file opened for writing and still
\* empty; a file two writers have written over each other
NoConv == [state |-> "none", doc |-> Doc(<<>>, {})]
ConvFile(doc) == [state |-> "ok", doc |-> doc]
Truncated == [state |-> "truncated", doc |-> Doc(<<>>, {})]
Garbled == [state |-> "garbled", doc |-> Doc(<<>>, {})]

\* a storage_dir just made
EmptyStorage == [id \in AskedIds |-> NoConv]

\* A caller between calls.  made counts the uuids it has drawn for messages;
\* before and raced are history: the file as the call found it, and whether
\* another writer wrote the file while this call had it open.
CmIdle ==
    [op |-> "none", pc |-> "idle", id |-> "", role |-> "", content |-> <<>>,
     limit |-> 0, context |-> {}, doc |-> Doc(<<>>, {}), msg |-> <<>>, ret |-> <<>>,
     raised |-> "", query |-> <<>>, processed_query |-> <<>>, manager |-> FALSE,
     stage |-> 0, made |-> 0, calls |-> 0, before |-> NoConv, raced |-> FALSE]

\* A caller between calls.  The fields from "stale" on are history the program
\* does not keep: what the call has done and what went on around it.
Idle ==
    [op |-> "none", pc |-> "idle", ctor |-> FALSE,
     current_hash |-> HashNone, chunks |-> <<>>, embeddings |-> <<>>, result |-> FALSE,
     query |-> "", top_k |-> 0, qvec |-> ZeroVec, ret |-> <<>>, via |-> "none",
     stale |-> FALSE, seenIndexExists |-> FALSE, readCorpus |-> FALSE,
     embedded |-> FALSE, wroteIndex |-> FALSE, wroteCache |-> FALSE,
     savedCache |-> FALSE, changedIndex |-> FALSE, concurrent |-> FALSE,
     peerBuilt |-> FALSE, afterBuild |-> FALSE,
     stable |-> TRUE, overlapped |-> FALSE, healthy |-> TRUE, aligned |-> TRUE,
     reflects |-> TRUE]

RebuildPcs == {"ue_read", "ue_swap", "ue_write_index"}
SearchPcs == {"se_search"}

InRebuild(u) == th[u].op = "update" /\ th[u].pc \in RebuildPcs
InSearch(u) == th[u].op = "search" /\ th[u].pc \in SearchPcs

\* A call that has returned stays on record (pc = "done") for one step, in which
\* nothing else moves: the record holds no program state, only the returned
\* value and the call's history.
NoneDone == \A u \in Threads : th[u].pc # "done"

\* a caller may enter a method: it is between calls, and the instance exists
\* (during __init__ only the constructing thread runs, inside update_embeddings)
MayCall(t) == th[t].pc = "idle" /\ ~constructing /\ NoneDone

\* caller t has begun a rebuild: a search in flight has now overlapped a
\* rebuild, and a rebuild in flight has now run beside another
MarkOverlap(f, t) ==
    [u \in Threads |->
        IF u # t /\ f[u].op = "search" /\ f[u].pc \in SearchPcs
        THEN [f[u] EXCEPT !.overlapped = TRUE]
        ELSE IF u # t /\ f[u].op = "update" /\ f[u].pc \in RebuildPcs
        THEN [f[u] EXCEPT !.concurrent = TRUE]
        ELSE f[u]]

\* caller t has completed and persisted a rebuild: the rebuilds that ran beside
\* it have now a finished peer
MarkPeerBuilt(f, t) ==
    [u \in Threads |->
        IF u # t /\ f[u].op = "update" /\ f[u].pc \in RebuildPcs /\ f[u].concurrent
        THEN [f[u] EXCEPT !.peerBuilt = TRUE] ELSE f[u]]

\* the chunk list and the index correspond position by position
Aligned(chunks, idx) ==
    /\ Len(chunks) = Len(idx)
    /\ \A i \in 1..Len(idx) : idx[i].of = chunks[i]

\* ------------------------------------------------------- update_embeddings
\* lines 128-134: the fingerprint and the staleness test
UpdateCheckStep(t, isCtor) ==
    LET current_hash == _compute_file_hash(corpus)
        skip == NoChangesDetected(embeddings_cache, current_hash, disk_index)
        call == [Idle EXCEPT !.op = "update", !.ctor = isCtor,
                             !.current_hash = current_hash,
                             !.seenIndexExists = PathExists(disk_index),
                             !.afterBuild = (snapshot = "built"),
                             !.stale = ~skip,
                             !.concurrent = ~skip /\ \E u \in Threads \ {t} : InRebuild(u),
                             !.pc = IF skip THEN "done" ELSE "ue_read"]
    IN  /\ th' = IF skip THEN [th EXCEPT ![t] = call]
                 ELSE MarkOverlap([th EXCEPT ![t] = call], t)
        /\ snapshot' = IF skip /\ isCtor THEN "skipped" ELSE snapshot
        /\ constructing' = IF skip THEN FALSE ELSE constructing
        /\ UNCHANGED <<corpus, disk_index, disk_cache, index, embeddings_cache,
                       edits, restarts, fcall, conversations, cm>>

UpdateCheck(t) ==
    /\ MayCall(t)
    /\ UpdateCheckStep(t, FALSE)

\* __init__ line 50: the constructor's own call
CtorUpdateCheck ==
    /\ constructing
    /\ NoneDone
    /\ th[MainThread].pc = "idle"
    /\ UpdateCheckStep(MainThread, TRUE)

\* the call returns: its locals are gone
Return(c, res) ==
    [c EXCEPT !.pc = "done", !.result = res, !.chunks = <<>>, !.embeddings = <<>>]

\* lines 137-148: read the corpus and split it (a missing file raises), then
\* embed the chunks: the service answers every chunk, or fails on one
UpdateEmbed(t) ==
    /\ NoneDone
    /\ th[t].op = "update" /\ th[t].pc = "ue_read"
    /\ IF corpus.exists
       THEN /\ \E ok \in BOOLEAN :
                 th' = [th EXCEPT ![t] =
                          [@ EXCEPT !.pc = "ue_swap", !.readCorpus = TRUE, !.embedded = TRUE,
                                    !.chunks = SplitChunks(corpus.text),
                                    !.embeddings =
                                        _generate_embeddings(SplitChunks(corpus.text), ok)]]
            /\ UNCHANGED constructing
       ELSE /\ th' = [th EXCEPT ![t] = Return([@ EXCEPT !.readCorpus = TRUE], FALSE)]
            /\ constructing' = FALSE
    /\ UNCHANGED <<corpus, disk_index, disk_cache, index, embeddings_cache,
                   snapshot, edits, restarts, fcall, conversations, cm>>

\* lines 151-152: self.index is a new empty index, then the vectors are added
UpdateSwap(t) ==
    /\ NoneDone
    /\ th[t].op = "update" /\ th[t].pc = "ue_swap"
    /\ snapshot' = "none"
    /\ IF AddRaises(th[t].embeddings)
       THEN /\ index' = <<>>
            /\ th' = [th EXCEPT ![t] = Return([@ EXCEPT !.changedIndex = (index # <<>>)], FALSE)]
            /\ constructing' = FALSE
       ELSE /\ index' = th[t].embeddings
            /\ th' = [th EXCEPT ![t] = [@ EXCEPT !.pc = "ue_write_index",
                                                  !.changedIndex = (index # th[t].embeddings)]]
            /\ UNCHANGED constructing
    /\ UNCHANGED <<corpus, disk_index, disk_cache, embeddings_cache, edits, restarts,
                   fcall, conversations, cm>>

\* lines 155-166 and _save_embeddings_cache.  faiss.write_index writes the file,
\* or raises and leaves it as it was (it could not be opened) or cut short.  Then
\* the cache document is written, or the failure is logged and swallowed: either
\* way update_embeddings returns True
UpdatePersist(t) ==
    /\ NoneDone
    /\ th[t].op = "update" /\ th[t].pc = "ue_write_index"
    /\ \/ /\ disk_index' = IndexFile(index)
          /\ disk_cache' = CacheFile(CacheData(th[t].current_hash, th[t].chunks))
          /\ LET returned == [th EXCEPT ![t] =
                                  Return([@ EXCEPT !.wroteIndex = TRUE, !.wroteCache = TRUE,
                                                   !.savedCache = TRUE], TRUE)]
             IN  th' = IF th[t].stable THEN MarkPeerBuilt(returned, t) ELSE returned
          /\ snapshot' = IF /\ th[t].stable
                            /\ ~\E u \in Threads \ {t} : InRebuild(u)
                            /\ th[t].embeddings = _generate_embeddings(th[t].chunks, TRUE)
                         THEN "built" ELSE "none"
       \/ /\ disk_index' = IndexFile(index)
          /\ disk_cache' \in {disk_cache, CorruptFile}
          /\ th' = [th EXCEPT ![t] = Return([@ EXCEPT !.wroteIndex = TRUE,
                                                      !.wroteCache = TRUE], TRUE)]
          /\ snapshot' = "none"
       \/ /\ disk_index' \in {disk_index, CorruptFile}
          /\ disk_cache' = disk_cache
          /\ th' = [th EXCEPT ![t] = Return([@ EXCEPT !.wroteIndex = TRUE], FALSE)]
          /\ snapshot' = "none"
    /\ constructing' = FALSE
    /\ UNCHANGED <<corpus, index, embeddings_cache, edits, restarts, fcall,
                   conversations, cm>>

\* ------------------------------------------------------- search_embeddings
\* lines 275-286: self.index is never None here (only initialize_embeddings sets
\* it so, and nothing calls that while an index exists); the chunk list is read
\* from self.embeddings_cache, and an empty one goes to the fallback; then the
\* query is embedded, to zeros when the service fails
SearchStart(t) ==
    /\ MayCall(t)
    /\ \E q \in Queries, k \in 1..MaxTopK, ok \in BOOLEAN :
         LET chunks == embeddings_cache.chunks
             call == [Idle EXCEPT !.op = "search", !.query = q, !.top_k = k]
         IN  th' = [th EXCEPT ![t] =
                      IF Len(chunks) = 0
                      THEN [call EXCEPT !.pc = "done", !.via = "empty_cache",
                                        !.ret = _fallback_search(q, k)]
                      ELSE [call EXCEPT !.pc = "se_search", !.chunks = chunks,
                                        !.qvec = _generate_embeddings(<<q>>, ok)[1].vec,
                                        !.overlapped = \E u \in Threads \ {t} : InRebuild(u)]]
    /\ UNCHANGED <<corpus, disk_index, disk_cache, index, embeddings_cache,
                   constructing, snapshot, edits, restarts, fcall, conversations, cm>>

\* lines 289-310: search self.index as it is now, filter, map to the chunks read
\* at the start, and return
SearchIndex(t) ==
    /\ NoneDone
    /\ th[t].op = "search" /\ th[t].pc = "se_search"
    /\ \E searchOk \in BOOLEAN :
       LET c == th[t]
           r == SearchOutcome(c.chunks, index, c.qvec, c.query, c.top_k, searchOk)
       IN  th' = [th EXCEPT ![t] =
                    [c EXCEPT !.pc = "done", !.ret = r.items, !.via = r.via, !.chunks = <<>>,
                              !.healthy = /\ c.qvec = ServiceVec(c.query)
                                          /\ \A i \in 1..Len(index) :
                                                index[i].vec = ServiceVec(index[i].of),
                              !.aligned = Aligned(c.chunks, index),
                              !.reflects = \A i \in 1..Len(r.items) :
                                  /\ corpus.exists
                                  /\ \E j \in 1..Len(SplitChunks(corpus.text)) :
                                        SplitChunks(corpus.text)[j] = r.items[i]]]
    /\ UNCHANGED <<corpus, disk_index, disk_cache, index, embeddings_cache,
                   constructing, snapshot, edits, restarts, fcall, conversations, cm>>

\* the caller has its result and is between calls again
Forget(t) ==
    /\ th[t].pc = "done"
    /\ th' = [th EXCEPT ![t] = Idle]
    /\ UNCHANGED <<corpus, disk_index, disk_cache, index, embeddings_cache,
                   constructing, snapshot, edits, restarts, fcall, conversations, cm>>

\* ---------------------------------------------------------- the environment
\* calls in flight have now seen the files change under them
MarkUnstable(f) ==
    [u \in Threads |-> IF f[u].pc \in RebuildPcs \cup SearchPcs
                       THEN [f[u] EXCEPT !.stable = FALSE] ELSE f[u]]

\* the corpus file is edited, replaced or removed
CorpusChange ==
    /\ NoneDone
    /\ edits < MaxEdits
    /\ \E c \in Corpora \ {corpus} : corpus' = c
    /\ edits' = edits + 1
    /\ th' = MarkUnstable(th)
    /\ snapshot' = "none"
    /\ UNCHANGED <<disk_index, disk_cache, index, embeddings_cache, constructing,
                   restarts, fcall, conversations, cm>>

\* the index file is removed
DeleteIndexFile ==
    /\ NoneDone
    /\ edits < MaxEdits
    /\ PathExists(disk_index)
    /\ disk_index' = DeletedFile
    /\ edits' = edits + 1
    /\ th' = MarkUnstable(th)
    /\ snapshot' = "none"
    /\ UNCHANGED <<corpus, disk_cache, index, embeddings_cache, constructing,
                   restarts, fcall, conversations, cm>>

\* __init__ lines 41-49 in a new process: an empty index, the cache document
\* loaded from disk; update_embeddings (line 50) follows as CtorUpdateCheck
Restart ==
    /\ NoneDone
    /\ restarts < MaxRestarts
    /\ restarts' = restarts + 1
    /\ index' = <<>>
    /\ embeddings_cache' = _load_embeddings_cache(disk_cache)
    /\ th' = [t \in Threads |-> Idle]
    /\ constructing' = TRUE
    /\ snapshot' = "none"
    /\ UNCHANGED <<corpus, disk_index, disk_cache, edits, fcall, conversations, cm>>

\* a first deployment, inside __init__ just before line 50: no files but the
\* corpus (or not even that)
Init ==
    /\ corpus \in Corpora
    /\ disk_index = NoFile
    /\ disk_cache = NoFile
    /\ index = <<>>
    /\ embeddings_cache = _load_embeddings_cache(NoFile)
    /\ th = [t \in Threads |-> Idle]
    /\ constructing = TRUE
    /\ snapshot = "none"
    /\ edits = 0
    /\ restarts = 0
    /\ fcall = NoCall
    /\ conversations = EmptyStorage
    /\ cm = [t \in Threads |-> CmIdle]

Next ==
    \/ CtorUpdateCheck
    \/ \E t \in Threads : UpdateCheck(t)
    \/ \E t \in Threads : UpdateEmbed(t)
    \/ \E t \in Threads : UpdateSwap(t)
    \/ \E t \in Threads : UpdatePersist(t)
    \/ \E t \in Threads : SearchStart(t)
    \/ \E t \in Threads : SearchIndex(t)
    \/ \E t \in Threads : Forget(t)
    \/ CorpusChange
    \/ DeleteIndexFile
    \/ Restart

Spec == Init /\ [][Next]_vars

\* ------------------------------------------------- searches of a given index
\* An instance as rebuilds and restarts leave it, with more chunks than the
\* corpora above hold: self.index is what one call of _generate_embeddings gave
\* for some chunk list, self.embeddings_cache holds the chunk list of the same or
\* of another build (update_embeddings never refreshes it).  Callers search it.
ChunkTexts == {"pa", "pb", "pc"}
ChunkLists == SeqsUpTo(ChunkTexts, MaxIndexLen)
TextOf(chunks) == [i \in 1..Len(chunks) |-> [body |-> chunks[i], pad |-> FALSE]]

SearchInit ==
    /\ \E texts \in ChunkLists, ok \in BOOLEAN : index = _generate_embeddings(texts, ok)
    /\ \E chunks \in ChunkLists : embeddings_cache = CacheData(Md5(TextOf(chunks)), chunks)
    /\ corpus = NoCorpus
    /\ disk_index = NoFile
    /\ disk_cache = NoFile
    /\ th = [t \in Threads |-> Idle]
    /\ constructing = FALSE
    /\ snapshot = "none"
    /\ edits = 0
    /\ restarts = 0
    /\ fcall = NoCall
    /\ conversations = EmptyStorage
    /\ cm = [t \in Threads |-> CmIdle]

SearchNext ==
    \/ \E t \in Threads : SearchStart(t)
    \/ \E t \in Threads : SearchIndex(t)
    \/ \E t \in Threads : Forget(t)

SearchSpec == SearchInit /\ [][SearchNext]_vars

\* ------------------------------------------------------ strings of Python
\* A string is the sequence of its characters.
IsSpace(c) == c \in {" ", "\n"}

SetMin(S) == CHOOSE x \in S : \A y \in S : x <= y
SetMax(S) == CHOOSE x \in S : \A y \in S : x >= y

\* the positions at which sep occurs in s
Occurrences(s, sep) ==
    { i \in 1..(Len(s) - Len(sep) + 1) : SubSeq(s, i, i + Len(sep) - 1) = sep }

\* s.split(sep): the pieces between the occurrences of sep, leftmost first
RECURSIVE Split(_, _)
Split(s, sep) ==
    IF Occurrences(s, sep) = {} THEN <<s>>
    ELSE LET i == SetMin(Occurrences(s, sep))
         IN  <<SubSeq(s, 1, i - 1)>> \o Split(SubSeq(s, i + Len(sep), Len(s)), sep)

\* s.strip()
StripStr(s) ==
    LET solid == { i \in 1..Len(s) : ~IsSpace(s[i]) }
    IN  IF solid = {} THEN <<>> ELSE SubSeq(s, SetMin(solid), SetMax(solid))

\* s.lower()
Lower(s) == [i \in 1..Len(s) |-> IF s[i] = "A" THEN "a" ELSE s[i]]

NonEmpty(s) == Len(s) > 0

\* s.split(): the words between runs of whitespace
SplitWords(s) ==
    SelectSeq(Split([i \in 1..Len(s) |-> IF IsSpace(s[i]) THEN " " ELSE s[i]], <<" ">>),
              NonEmpty)

\* sep.join(parts)
RECURSIVE Join(_, _)
Join(parts, sep) ==
    IF Len(parts) = 0 THEN <<>>
    ELSE IF Len(parts) = 1 THEN parts[1]
    ELSE parts[1] \o sep \o Join(Tail(parts), sep)

\* no HospitalEmbeddings instance is in use
NoInstance ==
    /\ corpus = NoCorpus
    /\ disk_index = NoFile
    /\ disk_cache = NoFile
    /\ index = <<>>
    /\ embeddings_cache = EmptyCache
    /\ th = [t \in Threads |-> Idle]
    /\ constructing = FALSE
    /\ snapshot = "none"
    /\ edits = 0
    /\ restarts = 0

\* the program state while a stateless function is followed
Parked ==
    /\ NoInstance
    /\ conversations = EmptyStorage
    /\ cm = [t \in Threads |-> CmIdle]

program == <<corpus, disk_index, disk_cache, index, embeddings_cache, th,
             constructing, snapshot, edits, restarts, conversations, cm>>

Ready(fn, arg) == [fn |-> fn, arg |-> arg, out |-> <<>>, pc |-> "ready"]

\* --------------------------- rag_engine._format_and_deduplicate_context
\* line 139: the stripped, non-empty pieces between the full stops
SentencesOf(context) ==
    LET pieces == Split(context, <<".">>)
    IN  SelectSeq([i \in 1..Len(pieces) |-> StripStr(pieces[i])], NonEmpty)

\* a signature that tells upper case from lower case
Signature_CaseSensitive(sentence) == Join(SplitWords(sentence), <<" ">>)

\* line 145: ' '.join(sentence.lower().split())
Signature(sentence) == Join(SplitWords(Lower(sentence)), <<" ">>)

\* lines 142-148: the sentences not seen before, and what has been seen after
RECURSIVE UniqueSentences(_, _)
UniqueSentences(sentences, seen_content) ==
    IF Len(sentences) = 0 THEN [unique |-> <<>>, seen |-> seen_content]
    ELSE LET simple_sentence == Signature(Head(sentences))
             rest == UniqueSentences(Tail(sentences), seen_content \cup {simple_sentence})
         IN  IF simple_sentence \in seen_content THEN rest
             ELSE [unique |-> <<Head(sentences)>> \o rest.unique, seen |-> rest.seen]

\* a deduplication that forgets what it has seen at every new context
RECURSIVE FormattedSections_PerContext(_, _)
FormattedSections_PerContext(contexts, seen_content) ==
    IF Len(contexts) = 0 THEN <<>>
    ELSE LET u == UniqueSentences(SentencesOf(Head(contexts)), {})
             later == FormattedSections_PerContext(Tail(contexts), {})
         IN  IF Len(u.unique) > 0
             THEN <<Join(u.unique, <<".", " ">>) \o <<".">>>> \o later
             ELSE later

\* lines 137-151: one section per context that has a sentence left
RECURSIVE FormattedSections(_, _)
FormattedSections(contexts, seen_content) ==
    IF Len(contexts) = 0 THEN <<>>
    ELSE LET u == UniqueSentences(SentencesOf(Head(contexts)), seen_content)
             later == FormattedSections(Tail(contexts), u.seen)
         IN  IF Len(u.unique) > 0
             THEN <<Join(u.unique, <<".", " ">>) \o <<".">>>> \o later
             ELSE later

\* line 153
_format_and_deduplicate_context(contexts) ==
    Join(FormattedSections(contexts, {}), <<"\n", "\n">>)

ContextChars == {"a", "A", " ", "."}
ContextLists(n, m) == SeqsUpTo(SeqsUpTo(ContextChars, n), m)

DedupInit ==
    /\ Parked
    /\ \E contexts \in ContextLists(MaxCtxLen, MaxContexts) :
          fcall = Ready("_format_and_deduplicate_context", contexts)

DedupApply ==
    /\ fcall.fn = "_format_and_deduplicate_context" /\ fcall.pc = "ready"
    /\ fcall' = [fcall EXCEPT !.out = _format_and_deduplicate_context(fcall.arg),
                              !.pc = "done"]
    /\ UNCHANGED program

DedupNext == DedupApply

DedupSpec == DedupInit /\ [][DedupNext]_vars

\* ------------------------------------------------------------ the chunkers
\* A corpus text as a string of symbols: a space, a line break, and runs of
\* characters without whitespace that count for their length: "L" a word one
\* character over the floor of update_embeddings, "X" one exactly at it, "S" one
\* under it; "H" a heading in capitals ending in a colon, one over the floor of
\* initialize_embeddings, "h" such a heading exactly at that floor, "s" one
\* under it.
SymbolLen(c) ==
    CASE c = "L" -> MinChunkLen + 1
      [] c = "X" -> MinChunkLen
      [] c = "S" -> MinChunkLen - 1
      [] c = "H" -> InitMinChunkLen + 1
      [] c = "h" -> InitMinChunkLen
      [] c = "s" -> InitMinChunkLen - 1
      [] OTHER -> 1

\* len(s)
RECURSIVE StrLen(_)
StrLen(s) == IF Len(s) = 0 THEN 0 ELSE SymbolLen(Head(s)) + StrLen(Tail(s))

\* a chunker without a floor
LongEnough_Always(chunk, floor) == TRUE

\* len(chunk) > 50, len(chunk) > 20
LongEnough(chunk, floor) == StrLen(chunk) > floor

\* update_embeddings lines 142-145: the stripped pieces between blank lines
StrippedSegments(content) ==
    LET segs == Split(content, <<"\n", "\n">>)
    IN  [i \in 1..Len(segs) |-> StripStr(segs[i])]

KeepChunk(chunk) == NonEmpty(chunk) /\ LongEnough(chunk, MinChunkLen)

ChunksOfContent(content) == SelectSeq(StrippedSegments(content), KeepChunk)

\* initialize_embeddings lines 193-196: re.split at the blank lines that a
\* heading follows
IsHeading(c) == c \in {"H", "h", "s"}

HeadingBreaks(s) ==
    { i \in Occurrences(s, <<"\n", "\n">>) : i + 2 <= Len(s) /\ IsHeading(s[i + 2]) }

RECURSIVE SplitSections(_)
SplitSections(s) ==
    IF HeadingBreaks(s) = {} THEN <<s>>
    ELSE LET i == SetMin(HeadingBreaks(s))
         IN  <<SubSeq(s, 1, i - 1)>> \o SplitSections(SubSeq(s, i + 2, Len(s)))

\* lines 202-206: the stripped non-empty lines, joined by line breaks
CleanLines(chunk) ==
    LET lines == Split(chunk, <<"\n">>)
    IN  Join(SelectSeq([i \in 1..Len(lines) |-> StripStr(lines[i])], NonEmpty), <<"\n">>)

CleanedSections(raw_text) ==
    LET text_chunks == SplitSections(raw_text)
    IN  [i \in 1..Len(text_chunks) |-> CleanLines(text_chunks[i])]

KeepInitChunk(chunk) == LongEnough(chunk, InitMinChunkLen)

\* lines 198-210
InitChunksOfText(raw_text) == SelectSeq(CleanedSections(raw_text), KeepInitChunk)

UpdateSymbols == {"L", "X", "S", " ", "\n"}
InitSymbols == {"H", "h", "s", " ", "\n"}

ChunkInit ==
    /\ Parked
    /\ \/ \E content \in SeqsUpTo(UpdateSymbols, MaxTextLen) :
             fcall = Ready("update_embeddings.chunks", content)
       \/ \E raw_text \in SeqsUpTo(InitSymbols, MaxTextLen) :
             fcall = Ready("initialize_embeddings.chunks", raw_text)

UpdateChunkApply ==
    /\ fcall.fn = "update_embeddings.chunks" /\ fcall.pc = "ready"
    /\ fcall' = [fcall EXCEPT !.out = ChunksOfContent(fcall.arg), !.pc = "done"]
    /\ UNCHANGED program

InitChunkApply ==
    /\ fcall.fn = "initialize_embeddings.chunks" /\ fcall.pc = "ready"
    /\ fcall' = [fcall EXCEPT !.out = InitChunksOfText(fcall.arg), !.pc = "done"]
    /\ UNCHANGED program

ChunkNext == UpdateChunkApply \/ InitChunkApply

ChunkSpec == ChunkInit /\ [][ChunkNext]_vars

\* ------------------------------------------------------------ the embedders
\* embeddings._generate_embeddings on a list of texts; the service answers every
\* text, or raises at the failAt-th (0: at none)
BatchTexts == SeqsUpTo(ChunkTexts, MaxBatch)

\* ingest.invoke_openai_embeddings: one request for the whole batch; None when
\* it raises, else one vector per item of response.data, however many came
invoke_openai_embeddings(texts, response) ==
    IF response.raises THEN [none |-> TRUE, vectors |-> <<>>]
    ELSE [none |-> FALSE,
          vectors |-> [i \in 1..response.count |->
                          [vec |-> ServiceVec(texts[i]), of |-> texts[i]]]]

\* ingest.embed_in_DB: what it returns and what it leaves in the two files
NotWritten == [written |-> FALSE, content |-> <<>>]
Written(x) == [written |-> TRUE, content |-> x]

embed_in_DB(docs, response, indexOk, metaOk) ==
    LET embedded_vectors == invoke_openai_embeddings(docs, response)
        failed == [ret |-> "none", index_file |-> NotWritten, metadata_file |-> NotWritten]
    IN  IF embedded_vectors.none THEN failed
        ELSE IF Len(embedded_vectors.vectors) = 0 THEN failed
        ELSE IF ~indexOk THEN failed
        ELSE IF ~metaOk
        THEN [failed EXCEPT !.index_file = Written(embedded_vectors.vectors)]
        ELSE [ret |-> "pair", index_file |-> Written(embedded_vectors.vectors),
              metadata_file |-> Written(docs)]

EmbedInit ==
    /\ Parked
    /\ \/ \E texts \in BatchTexts : \E failAt \in 0..Len(texts) :
             fcall = Ready("_generate_embeddings", [texts |-> texts, failAt |-> failAt])
       \/ \E docs \in BatchTexts, raises, indexOk, metaOk \in BOOLEAN :
             \E count \in 0..Len(docs) :
                fcall = Ready("embed_in_DB",
                              [docs |-> docs, response |-> [raises |-> raises, count |-> count],
                               indexOk |-> indexOk, metaOk |-> metaOk])

GenerateApply ==
    /\ fcall.fn = "_generate_embeddings" /\ fcall.pc = "ready"
    /\ fcall' = [fcall EXCEPT !.out = _generate_embeddings(fcall.arg.texts, fcall.arg.failAt = 0),
                              !.pc = "done"]
    /\ UNCHANGED program

IngestApply ==
    /\ fcall.fn = "embed_in_DB" /\ fcall.pc = "ready"
    /\ fcall' = [fcall EXCEPT !.out = embed_in_DB(fcall.arg.docs, fcall.arg.response,
                                                  fcall.arg.indexOk, fcall.arg.metaOk),
                              !.pc = "done"]
    /\ UNCHANGED program

EmbedNext == GenerateApply \/ IngestApply

EmbedSpec == EmbedInit /\ [][EmbedNext]_vars

\* ------------------------------------------------ rag_engine.process_query
\* A QueryResponse, or the exception that left the call.
QueryResponse(status, response, source_info) ==
    [raised |-> FALSE, status |-> status, response |-> response, source_info |-> source_info]
Raised(e) == [raised |-> TRUE, status |-> "", response |-> <<"exception", e>>, source_info |-> {}]

\* lines 261-275: two fixed messages, status no_data, no source info
_generate_fallback_response == QueryResponse("no_data", <<"fallback message">>, {})
_generate_no_data_response == QueryResponse("no_data", <<"no data message">>, {})

\* "qr" asks about research; "pr" is a chunk that holds research figures;
\* "NoneQuery" is a query that is no string, on which query.lower() raises
RagQueries == {"qa", "qr", "NoneQuery"}
_is_research_query(query) == query = "qr"
_extract_research_data(contexts) ==
    { "research" : i \in { j \in 1..Len(contexts) : contexts[j] = "pr" } }

\* what search_embeddings(query, top_k=5) can hand back: chunks, or the five
\* fallback chunks
ContextResults ==
    (SeqsUpTo({"pa", "pr"}, MaxIndexLen) \ { <<>> }) \cup { _fallback_search("qa", Len(fallback_chunks)) }

\* chat.completions.create: it raises, or answers with no choice, or with a
\* choice whose content is None, or with a text
Completions == {"raises", "no_choices", "none_content", "text"}

\* the successful end, lines 113-125
SuccessResponse(query, contexts) ==
    QueryResponse("success", <<"formatted", "answer">>,
                  [sources |-> contexts, sections |-> {}, metrics |-> {}])

\* a process_query whose handler reports the exception to the user
process_query_ReportError(query, contexts, completion) ==
    IF query = "NoneQuery" THEN Raised("AttributeError")
    ELSE IF Len(contexts) = 0 THEN _generate_no_data_response
    ELSE IF _is_research_query(query) /\ _extract_research_data(contexts) = {}
    THEN _generate_no_data_response
    ELSE IF completion # "text" THEN QueryResponse("error", <<"exception", completion>>, {})
    ELSE SuccessResponse(query, contexts)

\* lines 71-129: every exception inside the try ends in the fallback response
process_query(query, contexts, completion) ==
    IF query = "NoneQuery" THEN _generate_fallback_response
    ELSE IF Len(contexts) = 0 THEN _generate_no_data_response
    ELSE IF _is_research_query(query) /\ _extract_research_data(contexts) = {}
    THEN _generate_no_data_response
    ELSE IF completion # "text" THEN _generate_fallback_response
    ELSE SuccessResponse(query, contexts)

RagInit ==
    /\ Parked
    /\ \E query \in RagQueries, contexts \in ContextResults, completion \in Completions :
          fcall = Ready("process_query",
                        [query |-> query, contexts |-> contexts, completion |-> completion])

ProcessQueryApply ==
    /\ fcall.fn = "process_query" /\ fcall.pc = "ready"
    /\ fcall' = [fcall EXCEPT !.out = process_query(fcall.arg.query, fcall.arg.contexts,
                                                    fcall.arg.completion),
                              !.pc = "done"]
    /\ UNCHANGED program

RagNext == ProcessQueryApply

RagSpec == RagInit /\ [][RagNext]_vars

\* ------------------------------------------------------------ hospital_gpt.py
\* What the patterns of the four getters can find in the data file: the
\* occupancy line of the ward asked about (with beds, or with 0/0 beds), the
\* deaths line of the date, the schedule of the department and shift, the
\* study of the treatment and year.
Facts == {"ward", "ward0", "deaths", "schedule", "study"}

DataFiles ==
    { [state |-> "ok", facts |-> f] : f \in SUBSET Facts }
        \cup { [state |-> "missing", facts |-> {}], [state |-> "unreadable", facts |-> {}] }

\* a raised exception, and a returned value
Exc(type, text) == [type |-> type, text |-> text, status_code |-> 0, detail |-> <<>>]
Raise(e) == [raised |-> TRUE, exc |-> e, value |-> <<>>]
Returned(v) == [raised |-> FALSE, exc |-> <<>>, value |-> v]

NoLoggerError == Exc("AttributeError", "'HospitalGPT' object has no attribute 'logger'")

\* lines 19-34: the text of the file; both handlers log through self.logger
\* before they return "", and an exception raised inside a handler leaves the
\* method
_load_hospital_data(file, hasLogger) ==
    IF file.state = "ok" THEN Returned(file.facts)
    ELSE IF hasLogger THEN Returned({})
    ELSE Raise(NoLoggerError)

\* lines 7-17: data_file is stored, the data is loaded (line 15), and only then
\* is self.logger assigned (line 17)
HospitalGPT(data_file) ==
    LET loaded == _load_hospital_data(data_file, FALSE)
    IN  IF loaded.raised THEN loaded
        ELSE Returned([data_file |-> data_file, hospital_data |-> loaded.value])

\* the dictionaries the methods return
ErrorDict(msg) == [error |-> msg]
DataDict(kind) == [data |-> kind]
HasErrorKey(d) == "error" \in DOMAIN d

\* lines 36-66: a matching line gives the figures; the occupancy rate divides by
\* the total, and the ZeroDivisionError of a 0/0 line is caught
get_bed_availability(hospital_data) ==
    IF "ward" \in hospital_data THEN DataDict("beds")
    ELSE IF "ward0" \in hospital_data THEN ErrorDict("Unable to retrieve bed availability")
    ELSE ErrorDict("No data found for ward")

\* lines 68-93
get_death_rates(hospital_data) ==
    IF "deaths" \in hospital_data THEN DataDict("deaths")
    ELSE ErrorDict("No death rate data found")

\* lines 95-127
get_staff_schedule(hospital_data) ==
    IF "schedule" \in hospital_data THEN DataDict("staff")
    ELSE ErrorDict("No staff schedule found")

\* lines 129-164
get_treatment_outcomes(hospital_data) ==
    IF "study" \in hospital_data THEN DataDict("outcomes")
    ELSE ErrorDict("No treatment outcome data found")

\* A query is the set of tests of process_query it passes, keyword test and
\* pattern together: "bed" has 'bed', 'ward' and a word before ' ward', and so on.
GptQueries == SUBSET {"bed", "death", "staff", "treatment"}

\* lines 166-209: the first test passed decides; none passed gives the
\* rephrase message
hospital_gpt_process_query(self, query) ==
    IF "bed" \in query THEN get_bed_availability(self.hospital_data)
    ELSE IF "death" \in query THEN get_death_rates(self.hospital_data)
    ELSE IF "staff" \in query THEN get_staff_schedule(self.hospital_data)
    ELSE IF "treatment" \in query THEN get_treatment_outcomes(self.hospital_data)
    ELSE ErrorDict("Unable to process query. Please rephrase or be more specific.")

\* a program constructs a HospitalGPT on a data file and asks it a question
GptInit ==
    /\ Parked
    /\ \E f \in DataFiles : fcall = Ready("HospitalGPT", [data_file |-> f])

GptConstruct ==
    /\ fcall.fn = "HospitalGPT" /\ fcall.pc = "ready"
    /\ fcall' = [fcall EXCEPT !.out = HospitalGPT(fcall.arg.data_file),
                              !.pc = IF HospitalGPT(fcall.arg.data_file).raised
                                     THEN "raised" ELSE "constructed"]
    /\ UNCHANGED program

GptProcessQuery ==
    /\ fcall.fn = "HospitalGPT" /\ fcall.pc = "constructed"
    /\ \E q \in GptQueries :
          fcall' = [fn |-> "HospitalGPT.process_query",
                    arg |-> [self |-> fcall.out.value, query |-> q],
                    out |-> hospital_gpt_process_query(fcall.out.value, q),
                    pc |-> "done"]
    /\ UNCHANGED program

GptNext == GptConstruct \/ GptProcessQuery

GptSpec == GptInit /\ [][GptNext]_vars

\* ------------------------------------------------- conversation_manager.py
\* everything but the conversation files and the calls on them
outside_cm == <<corpus, disk_index, disk_cache, index, embeddings_cache, th,
                constructing, snapshot, edits, restarts, fcall>>

Roles == {"user", "assistant"}
Contents == {<<"h", "i">>}
Contexts == SUBSET {"domain"}

\* lines 51-57; the timestamp is left out, the uuid is the caller and the
\* number of the draw
Message(id, role, content, metadata) ==
    [id |-> id, role |-> role, content |-> content, metadata |-> metadata]

\* a loader that takes a missing file for a new conversation
_load_conversation_CreateMissing(file) ==
    IF file.state = "ok" THEN Returned(file.doc)
    ELSE IF file.state = "none" THEN Returned(Doc(<<>>, {}))
    ELSE Raise(Exc("JSONDecodeError", "Expecting value"))

\* lines 100-115: ValueError when there is no file; json.load raises on a file
\* that holds no complete document
_load_conversation(file) ==
    IF file.state = "ok" THEN Returned(file.doc)
    ELSE IF file.state = "none" THEN Raise(Exc("ValueError", "Conversation not found"))
    ELSE Raise(Exc("JSONDecodeError", "Expecting value"))

\* messages[-limit:] of a Python list: -0 is 0, the whole list
LastMessages(messages, limit) ==
    IF limit = 0 \/ limit >= Len(messages) THEN messages
    ELSE SubSeq(messages, Len(messages) - limit + 1, Len(messages))

CmMayCall(t) == cm[t].pc = "idle" /\ cm[t].calls < MaxCalls

CmCall(t, op, id) ==
    [CmIdle EXCEPT !.op = op, !.id = id, !.made = cm[t].made, !.calls = cm[t].calls + 1,
                   !.before = conversations[id]]

\* the call raises what the loader raised
CmRaised(call, loaded) == [call EXCEPT !.pc = "done", !.raised = loaded.exc.type]

\* lines 17-37, up to the call of _save_conversation: a new uuid, an empty
\* message list
CreateConversation(t) ==
    /\ CmMayCall(t)
    /\ \E id \in ConvIds, initial_context \in Contexts :
          /\ conversations[id].state = "none"
          /\ \A u \in Threads : ~(cm[u].op = "create_conversation" /\ cm[u].id = id)
          /\ cm' = [cm EXCEPT ![t] =
                      [CmCall(t, "create_conversation", id) EXCEPT
                          !.doc = Doc(<<>>, initial_context), !.pc = "sv_open"]]
    /\ UNCHANGED <<conversations, outside_cm>>

\* lines 39-59: load, build the message, append it to the loaded list
AddMessage(t) ==
    /\ CmMayCall(t)
    /\ \E id \in AskedIds, role \in Roles, content \in Contents :
          LET loaded == _load_conversation(conversations[id])
              call == [CmCall(t, "add_message", id) EXCEPT !.role = role, !.content = content]
              message == Message(<<t, cm[t].made + 1>>, role, content, {})
          IN  cm' = [cm EXCEPT ![t] =
                       IF loaded.raised THEN CmRaised(call, loaded)
                       ELSE [call EXCEPT !.pc = "sv_open", !.msg = message,
                                         !.made = @ + 1,
                                         !.doc = Doc(Append(loaded.value.messages, message),
                                                     loaded.value.context)]]
    /\ UNCHANGED <<conversations, outside_cm>>

\* lines 62-74
GetConversationHistory(t) ==
    /\ CmMayCall(t)
    /\ \E id \in AskedIds, limit \in 0..MaxLimit :
          LET loaded == _load_conversation(conversations[id])
              call == [CmCall(t, "get_conversation_history", id) EXCEPT !.limit = limit]
          IN  cm' = [cm EXCEPT ![t] =
                       IF loaded.raised THEN CmRaised(call, loaded)
                       ELSE [call EXCEPT !.pc = "done", !.doc = loaded.value,
                                         !.ret = LastMessages(loaded.value.messages, limit)]]
    /\ UNCHANGED <<conversations, outside_cm>>

\* lines 76-85: load, merge the given keys into the context
UpdateConversationContext(t) ==
    /\ CmMayCall(t)
    /\ \E id \in AskedIds, context \in Contexts :
          LET loaded == _load_conversation(conversations[id])
              call == [CmCall(t, "update_conversation_context", id) EXCEPT !.context = context]
          IN  cm' = [cm EXCEPT ![t] =
                       IF loaded.raised THEN CmRaised(call, loaded)
                       ELSE [call EXCEPT !.pc = "sv_open",
                                         !.doc = Doc(loaded.value.messages,
                                                     loaded.value.context \cup context)]]
    /\ UNCHANGED <<conversations, outside_cm>>

\* _save_conversation line 97: open(file_path, 'w') creates or empties the file
SaveOpen(t) ==
    /\ cm[t].pc = "sv_open"
    /\ conversations' = [conversations EXCEPT ![cm[t].id] = Truncated]
    /\ cm' = [cm EXCEPT ![t] = [@ EXCEPT !.pc = "sv_dump"]]
    /\ UNCHANGED outside_cm

\* what the caller goes on with when _save_conversation has returned
AfterSave(c) ==
    IF c.op = "create_conversation" THEN [c EXCEPT !.pc = "done", !.ret = c.id]
    ELSE IF c.op = "handle_query" /\ c.stage = 1 THEN [c EXCEPT !.pc = "hq_second"]
    ELSE [c EXCEPT !.pc = "done"]

\* _save_conversation line 98 and the close: the document is written from the
\* start of the file.  When another writer has written the file since this one
\* opened it, what that one wrote is overwritten, wholly or (this document
\* being the shorter one) in part.
SaveDump(t) ==
    /\ cm[t].pc = "sv_dump"
    /\ \E written \in IF cm[t].raced THEN {ConvFile(cm[t].doc), Garbled}
                      ELSE {ConvFile(cm[t].doc)} :
          conversations' = [conversations EXCEPT ![cm[t].id] = written]
    /\ cm' = [u \in Threads |->
                IF u = t THEN AfterSave(cm[t])
                ELSE IF cm[u].pc = "sv_dump" /\ cm[u].id = cm[t].id
                THEN [cm[u] EXCEPT !.raced = TRUE]
                ELSE cm[u]]
    /\ UNCHANGED outside_cm

\* the caller has its result and is between calls again
CmForget(t) ==
    /\ cm[t].pc = "done"
    /\ cm' = [cm EXCEPT ![t] = [CmIdle EXCEPT !.made = cm[t].made, !.calls = cm[t].calls]]
    /\ UNCHANGED <<conversations, outside_cm>>

\* callers sharing one ConversationManager (the class takes no lock)
ConvInit ==
    /\ Parked
    /\ fcall = NoCall

ConvNext ==
    \/ \E t \in Threads : CreateConversation(t)
    \/ \E t \in Threads : AddMessage(t)
    \/ \E t \in Threads : GetConversationHistory(t)
    \/ \E t \in Threads : UpdateConversationContext(t)
    \/ \E t \in Threads : SaveOpen(t)
    \/ \E t \in Threads : SaveDump(t)
    \/ \E t \in Threads : CmForget(t)

ConvSpec == ConvInit /\ [][ConvNext]_vars

\* ------------------------------------------------------------ query_handler.py
\* A query is a string of symbols: a lower-case letter, an upper-case letter,
\* a blank, a punctuation mark, and the word 'something' in lower and in upper
\* case.
QuerySymbols == {"a", "A", " ", "?", "something", "SOMETHING"}

\* str.lower() on these symbols
LowerSymbol(c) == IF c = "A" THEN "a" ELSE IF c = "SOMETHING" THEN "something" ELSE c

\* what [^a-z0-9\s] does not match
IsPlain(c) == c \in {"a", " ", "something"}

\* lines 61-77: lower(), strip(), then the characters outside a-z, 0-9 and
\* whitespace are removed
_preprocess_query(query) ==
    SelectSeq(StripStr([i \in 1..Len(query) |-> LowerSymbol(query[i])]), IsPlain)

\* lines 79-95: fewer than three words, or one of the three indicator words
\* somewhere in the string
_is_query_ambiguous(query) ==
    \/ Len(SplitWords(query)) < 3
    \/ \E i \in 1..Len(query) : query[i] \in {"something", "anything", "whatever"}

\* the context argument: None, or a dictionary naming the hospital domain
HandlerContexts == {"None", "hospital"}

\* lines 97-145: three questions, by domain
_generate_clarification(query, context) ==
    IF context = "hospital" THEN <<"hospital questions">> ELSE <<"generic questions">>

\* lines 147-163: a fixed answer
_process_query(query, context) ==
    [status |-> "success", response |-> <<"ready to help">>]

\* a handler that logs the query as it was processed
LoggedMessages_Processed(t, query, processed_query, response, context) ==
    <<Message(<<t, cm[t].made + 1>>, "user", processed_query,
              [processed_query |-> processed_query]),
      Message(<<t, cm[t].made + 2>>, "assistant", response.response, [context |-> context])>>

\* lines 46-57: the two messages handle_query hands to add_message
LoggedMessages(t, query, processed_query, response, context) ==
    <<Message(<<t, cm[t].made + 1>>, "user", query, [processed_query |-> processed_query]),
      Message(<<t, cm[t].made + 2>>, "assistant", response.response, [context |-> context])>>

\* lines 18-51: the clarification is returned before anything is logged; with
\* no conversation manager the answer is returned at once; otherwise the first
\* add_message loads the conversation and appends the user's message
HandleQuery(t) ==
    /\ cm[t].pc = "idle" /\ cm[t].calls < MaxQueries
    /\ \E query \in SeqsUpTo(QuerySymbols, MaxQueryLen), id \in AskedIds,
          context \in HandlerContexts, manager \in BOOLEAN :
          LET processed_query == _preprocess_query(query)
              response == _process_query(processed_query, context)
              logged == LoggedMessages(t, query, processed_query, response, context)
              loaded == _load_conversation(conversations[id])
              call == [CmCall(t, "handle_query", id) EXCEPT
                          !.query = query, !.processed_query = processed_query,
                          !.context = context, !.manager = manager]
          IN  cm' = [cm EXCEPT ![t] =
                       IF _is_query_ambiguous(processed_query)
                       THEN [call EXCEPT !.pc = "done",
                                !.ret = [status |-> "clarification_needed",
                                         clarification_questions |->
                                            _generate_clarification(processed_query, context)]]
                       ELSE IF ~manager THEN [call EXCEPT !.pc = "done", !.ret = response]
                       ELSE IF loaded.raised THEN CmRaised(call, loaded)
                       ELSE [call EXCEPT !.pc = "sv_open", !.stage = 1, !.msg = logged,
                                !.made = @ + 1, !.ret = response,
                                !.doc = Doc(Append(loaded.value.messages, logged[1]),
                                            loaded.value.context)]]
    /\ UNCHANGED <<conversations, outside_cm>>

\* lines 52-59: the second add_message loads the conversation again and appends
\* the assistant's message; once it is saved handle_query returns the answer
HandleQuerySecond(t) ==
    /\ cm[t].pc = "hq_second"
    /\ LET loaded == _load_conversation(conversations[cm[t].id])
       IN  cm' = [cm EXCEPT ![t] =
                    IF loaded.raised THEN CmRaised([cm[t] EXCEPT !.ret = <<>>], loaded)
                    ELSE [cm[t] EXCEPT !.pc = "sv_open", !.stage = 2, !.made = @ + 1,
                             !.doc = Doc(Append(loaded.value.messages, cm[t].msg[2]),
                                         loaded.value.context)]]
    /\ UNCHANGED <<conversations, outside_cm>>

\* One caller with a QueryHandler, as in the module's example: the storage
\* holds a conversation created before, with or without a message, or none.
StoredBefore ==
    { NoConv, ConvFile(Doc(<<>>, {"domain"})),
      ConvFile(Doc(<<Message(<<"earlier", 1>>, "user", <<"h", "i">>, {})>>, {})) }

QueryInit ==
    /\ NoInstance
    /\ fcall = NoCall
    /\ \E f \in StoredBefore : conversations = [EmptyStorage EXCEPT !["c1"] = f]
    /\ cm = [t \in Threads |-> CmIdle]

QueryNext ==
    \/ HandleQuery(MainThread)
    \/ HandleQuerySecond(MainThread)
    \/ SaveOpen(MainThread)
    \/ SaveDump(MainThread)
    \/ CmForget(MainThread)

QuerySpec == QueryInit /\ [][QueryNext]_vars

\* ------------------------------------------------------------------ server.py
\* top_k of the searches the server makes (embeddings.py line 262, rag_engine
\* line 74, server line 248)
DefaultTopK == 5

\* messages are either a text written in the program or the str() of an
\* exception object
Fixed(text) == <<"fixed", text>>
HTTPException(status_code, detail) ==
    [type |-> "HTTPException", text |-> <<>>, status_code |-> status_code, detail |-> detail]

\* str(e): for an HTTPException, what its class makes of status and detail
Str(e) ==
    IF e.type = "HTTPException" THEN <<"str(HTTPException)", e.status_code, e.detail>>
    ELSE <<"str(exception)", e.type, e.text>>

\* the clause every endpoint ends with:
\*     except Exception as e: raise HTTPException(status_code=500, detail=str(e))
\* HTTPException is an Exception, so one raised inside the try is caught too
except_Exception(outcome) ==
    IF outcome.raised THEN Raise(HTTPException(500, Str(outcome.exc))) ELSE outcome

\* lines 329-349
http_exception_handler(exc) ==
    [status_code |-> exc.status_code,
     content |-> [status |-> "error", message |-> exc.detail, status_code |-> exc.status_code]]

\* what the client gets: the returned value with status 200, or what the
\* handler makes of the HTTPException
Reply(outcome) ==
    IF outcome.raised THEN http_exception_handler(outcome.exc)
    ELSE [status_code |-> 200, content |-> outcome.value]

\* rag_engine.get_response: RAGEngine defines no such method
rag_engine_get_response ==
    Raise(Exc("AttributeError", "'RAGEngine' object has no attribute 'get_response'"))

\* result.context, result.reasoning: QueryResponse has the fields status,
\* response and source_info only
result_context ==
    Raise(Exc("AttributeError", "'QueryResponse' object has no attribute 'context'"))

\* re.search in server.py, which does not import re
re_search == Raise(Exc("NameError", "name 're' is not defined"))

\* search_embeddings as one call (the handlers are not interleaved)
search_embeddings(query, top_k, embedOk, searchOk) ==
    IF Len(embeddings_cache.chunks) = 0 THEN _fallback_search(query, top_k)
    ELSE SearchOutcome(embeddings_cache.chunks, index,
                       _generate_embeddings(<<query>>, embedOk)[1].vec,
                       query, top_k, searchOk).items

\* rag_engine.process_query(query) on the instance's index
rag_process_query(query, embedOk, searchOk, completion) ==
    process_query(query, search_embeddings(query, DefaultTopK, embedOk, searchOk), completion)

\* lines 104-122
server_process_query(result) ==
    except_Exception(Returned([status |-> result.status, response |-> result.response,
                               metadata |-> result.source_info]))

\* lines 125-145
process_hospital_query(result) ==
    except_Exception(Returned([status |-> "success", data |-> result]))

Messages == { <<>>, <<" ">>, <<"a">>, <<" ", "a", " ">> }

\* lines 148-172
chat(message) ==
    except_Exception(
        IF StripStr(message) = <<>>
        THEN Raise(HTTPException(400, Fixed("Message cannot be empty")))
        ELSE rag_engine_get_response)

\* lines 175-205: the search returns a list, then get_response is called
process_hospital_embeddings(similar_chunks) == except_Exception(rag_engine_get_response)

\* lines 241-271
process_enhanced_query(embedding_context, result) == except_Exception(re_search)

\* lines 274-287 and 289-302
get_department_info(result) == except_Exception(result_context)
get_doctor_info(result) == except_Exception(result_context)

\* lines 304-326: result.response is a string, so the fallback dictionary
get_resource_management_info(result) ==
    except_Exception(Returned([overview |-> result.response, innovations |-> <<>>,
                               clinical_leadership |-> <<>>, metrics |-> {}]))

\* lines 375-389
health_check == Returned([status |-> "healthy"])

\* lines 219-226: the path test of update_hospital_data
FilePaths == {"None", "hospital_data_path", "other"}
update_hospital_data_validate(file) ==
    IF ~file.exists THEN Raise(HTTPException(404, Fixed("File not found")))
    ELSE Returned(<<>>)

\* lines 229-239
update_hospital_data_return(updated, file_path) ==
    except_Exception(Returned([status |-> "success", embeddings_updated |-> updated,
                               file_path |-> file_path]))

\* the chunk texts the index holds vectors of
Indexed(idx) == [i \in 1..Len(idx) |-> idx[i].of]

Answered(fn, arg, outcome) == [fn |-> fn, arg |-> arg, out |-> Reply(outcome), pc |-> "done"]

\* the server takes a request: the module is loaded, the startup event is over
\* and no handler is running (handlers are coroutines that never await)
MayServe == fcall.pc = "idle" /\ ~constructing /\ th[MainThread].pc = "idle"

ServerQueries == {"qa", "qr"}

\* The import of server.py reaches line 24 (from embeddings import
\* hospital_embeddings): the constructor runs, CtorUpdateCheck and the rebuild
\* steps.  It is the first start, or an earlier run has left the index and the
\* cache document of the corpus it found.
ServerInit ==
    /\ corpus \in Corpora
    /\ \E earlier \in Corpora :
          LET chunks == SplitChunks(earlier.text)
          IN  IF Len(chunks) = 0
              THEN disk_index = NoFile /\ disk_cache = NoFile
              ELSE /\ disk_index = IndexFile(_generate_embeddings(chunks, TRUE))
                   /\ disk_cache = CacheFile(CacheData(_compute_file_hash(earlier), chunks))
    /\ index = <<>>
    /\ embeddings_cache = _load_embeddings_cache(disk_cache)
    /\ th = [t \in Threads |-> Idle]
    /\ constructing = TRUE
    /\ snapshot = "none"
    /\ edits = 0
    /\ restarts = 0
    /\ fcall = [fn |-> "import", arg |-> <<>>, out |-> <<>>, pc |-> "import"]
    /\ conversations = EmptyStorage
    /\ cm = [t \in Threads |-> CmIdle]

\* lines 352-364: the startup event calls update_embeddings once more
StartupEvent ==
    /\ fcall.pc = "import" /\ ~constructing /\ th[MainThread].pc = "done"
    /\ th' = [th EXCEPT ![MainThread] = Idle]
    /\ fcall' = [fn |-> "startup_event", arg |-> <<>>, out |-> <<>>, pc |-> "in_update"]
    /\ UNCHANGED <<corpus, disk_index, disk_cache, index, embeddings_cache, constructing,
                   snapshot, edits, restarts, conversations, cm>>

\* hospital_embeddings.update_embeddings() called by the startup event (line
\* 360) or by update_hospital_data (line 229)
HandlerUpdateCheck ==
    /\ fcall.pc = "in_update"
    /\ UpdateCheck(MainThread)

StartupDone ==
    /\ fcall.fn = "startup_event" /\ fcall.pc = "in_update"
    /\ th[MainThread].pc = "done"
    /\ th' = [th EXCEPT ![MainThread] = Idle]
    /\ fcall' = NoCall
    /\ UNCHANGED <<corpus, disk_index, disk_cache, index, embeddings_cache, constructing,
                   snapshot, edits, restarts, conversations, cm>>

PostQuery ==
    /\ MayServe
    /\ \E query \in ServerQueries, embedOk \in BOOLEAN, searchOk \in BOOLEAN,
          completion \in Completions :
          fcall' = Answered("/query", [query |-> query],
                       server_process_query(
                           rag_process_query(query, embedOk, searchOk, completion)))
    /\ UNCHANGED program

\* the HospitalGPT of line 44 was built on a readable data file, or the module
\* would not have loaded
PostHospitalQuery ==
    /\ MayServe
    /\ \E facts \in SUBSET Facts, query \in GptQueries :
          fcall' = Answered("/hospital-query", [query |-> query],
                       process_hospital_query(
                           hospital_gpt_process_query(
                               HospitalGPT([state |-> "ok", facts |-> facts]).value, query)))
    /\ UNCHANGED program

PostChat ==
    /\ MayServe
    /\ \E message \in Messages :
          fcall' = Answered("/chat", [message |-> message], chat(message))
    /\ UNCHANGED program

PostHospitalEmbeddings ==
    /\ MayServe
    /\ \E query \in ServerQueries, embedOk \in BOOLEAN, searchOk \in BOOLEAN :
          fcall' = Answered("/hospital-embeddings", [query |-> query],
                       process_hospital_embeddings(
                           search_embeddings(query, DefaultTopK, embedOk, searchOk)))
    /\ UNCHANGED program

PostEnhancedQuery ==
    /\ MayServe
    /\ \E query \in ServerQueries, embedOk \in BOOLEAN, searchOk \in BOOLEAN,
          completion \in Completions :
          fcall' = Answered("/enhanced-query", [query |-> query],
                       process_enhanced_query(
                           search_embeddings(query, DefaultTopK, embedOk, searchOk),
                           rag_process_query(query, embedOk, searchOk, completion)))
    /\ UNCHANGED program

PostDepartmentInfo ==
    /\ MayServe
    /\ \E embedOk \in BOOLEAN, searchOk \in BOOLEAN, completion \in Completions :
          fcall' = Answered("/department-info", [department |-> "qa"],
                       get_department_info(
                           rag_process_query("qa", embedOk, searchOk, completion)))
    /\ UNCHANGED program

PostDoctorInfo ==
    /\ MayServe
    /\ \E embedOk \in BOOLEAN, searchOk \in BOOLEAN, completion \in Completions :
          fcall' = Answered("/doctor-info", [doctor_name |-> "qa"],
                       get_doctor_info(
                           rag_process_query("qa", embedOk, searchOk, completion)))
    /\ UNCHANGED program

PostResourceManagement ==
    /\ MayServe
    /\ \E query \in ServerQueries, embedOk \in BOOLEAN, searchOk \in BOOLEAN,
          completion \in Completions :
          fcall' = Answered("/resource-management", [query |-> query],
                       get_resource_management_info(
                           rag_process_query(query, embedOk, searchOk, completion)))
    /\ UNCHANGED program

GetHealth ==
    /\ MayServe
    /\ fcall' = Answered("/health", <<>>, health_check)
    /\ UNCHANGED program

\* lines 219-229: no file_path means the default path; the file at the path is
\* the data file of the embeddings or another one.  A missing file ends the
\* request; otherwise update_embeddings() is called, without the path
PostUpdateHospitalData ==
    /\ MayServe
    /\ \E file_path \in FilePaths, other \in Corpora :
          LET file == IF file_path = "hospital_data_path" THEN corpus ELSE other
              arg == [file_path |-> file_path, file |-> file]
              valid == update_hospital_data_validate(file)
          IN  fcall' = IF valid.raised
                       THEN Answered("/update-hospital-data", arg, except_Exception(valid))
                       ELSE [fn |-> "/update-hospital-data", arg |-> arg, out |-> <<>>,
                             pc |-> "in_update"]
    /\ UNCHANGED program

UpdateHospitalDataReturn ==
    /\ fcall.fn = "/update-hospital-data" /\ fcall.pc = "in_update"
    /\ th[MainThread].pc = "done"
    /\ th' = [th EXCEPT ![MainThread] = Idle]
    /\ fcall' = Answered(fcall.fn, fcall.arg,
                    update_hospital_data_return(th[MainThread].result, fcall.arg.file_path))
    /\ UNCHANGED <<corpus, disk_index, disk_cache, index, embeddings_cache, constructing,
                   snapshot, edits, restarts, conversations, cm>>

\* the data file is edited between two requests
ServerCorpusChange ==
    /\ fcall.pc = "idle"
    /\ CorpusChange

\* the response is on its way; the next request may come
ResponseSent ==
    /\ fcall.pc = "done"
    /\ fcall' = NoCall
    /\ UNCHANGED program

ServerNext ==
    \/ CtorUpdateCheck
    \/ UpdateEmbed(MainThread)
    \/ UpdateSwap(MainThread)
    \/ UpdatePersist(MainThread)
    \/ StartupEvent
    \/ HandlerUpdateCheck
    \/ StartupDone
    \/ PostQuery
    \/ PostHospitalQuery
    \/ PostChat
    \/ PostHospitalEmbeddings
    \/ PostUpdateHospitalData
    \/ UpdateHospitalDataReturn
    \/ PostEnhancedQuery
    \/ PostDepartmentInfo
    \/ PostDoctorInfo
    \/ PostResourceManagement
    \/ GetHealth
    \/ ResponseSent
    \/ ServerCorpusChange

ServerSpec == ServerInit /\ [][ServerNext]_vars

\* ================================================================== claims
NoRebuildInFlight == \A u \in Threads : ~InRebuild(u)

UpdateDone(t) == th[t].op = "update" /\ th[t].pc = "done"
SearchDone(t) == th[t].op = "search" /\ th[t].pc = "done"

\* C1: once a rebuild has completed successfully (and none is running), the chunk
\* list search_embeddings reads, self.embeddings_cache['chunks'], is as long as
\* the in-memory index and position i of the index holds the vector of chunk i.
C1_PositionalInvariant ==
    (snapshot = "built" /\ NoRebuildInFlight)
        => Aligned(embeddings_cache.chunks, index)

\* C2: a search that ran on an unchanging corpus, beside no rebuild and with the
\* embedding service in order, and returned chunks from the vector index returned
\* only chunks of the corpus as it is.
C2_SearchReflectsCorpus ==
    \A t \in Threads :
        (SearchDone(t) /\ th[t].via = "index" /\ th[t].stable /\ ~th[t].overlapped
            /\ th[t].healthy) => th[t].reflects

\* C3: an update_embeddings call made after a rebuild completed and was persisted,
\* with no change to the files since and no other rebuild beside it, finds nothing
\* stale, embeds nothing and returns False.
C3_SecondUpdateIsNoOp ==
    \A t \in Threads :
        (UpdateDone(t) /\ th[t].afterBuild /\ th[t].stable /\ ~th[t].concurrent)
            => (~th[t].stale /\ ~th[t].embedded /\ th[t].result = FALSE)

\* C4: an update_embeddings call that failed has left self.index as it was.
C4_FailedRebuildKeepsHandles ==
    \A t \in Threads :
        (UpdateDone(t) /\ th[t].stale /\ th[t].result = FALSE) => ~th[t].changedIndex

\* C5: an instance constructed on an unchanged corpus with both persisted files
\* intact holds as many vectors as the persisted index and answers every query as
\* the persisted index would.
C5_RestartServesPersisted ==
    (snapshot = "skipped" /\ disk_index.state = "ok" /\ disk_cache.state = "ok")
        => /\ Len(index) = Len(disk_index.vecs)
           /\ \A q \in Queries, k \in 1..MaxTopK :
                 IndexSearch(index, ServiceVec(q), k)
                    = IndexSearch(disk_index.vecs, ServiceVec(q), k)

\* the cache document describes the vectors of the index file
PersistedPairConsistent ==
    \/ disk_index.state = "none" /\ disk_cache.state = "none"
    \/ /\ disk_index.state = "ok" /\ disk_cache.state = "ok"
       /\ Aligned(disk_cache.data.chunks, disk_index.vecs)
       /\ disk_cache.data.num_embeddings = Len(disk_index.vecs)

\* C6: whenever no rebuild is running (and nobody removed the index file), the two
\* persisted files belong together: both absent, or the cache document's chunk
\* list and count describe exactly the vectors of the index file.
C6_PersistedFilesBelongTogether ==
    (NoRebuildInFlight /\ disk_index.state # "deleted") => PersistedPairConsistent

C8_OneRebuildPerStaleness ==
    \A t \in Threads :
        (th[t].op = "update" /\ th[t].concurrent /\ th[t].peerBuilt /\ th[t].stable)
            => ~th[t].wroteIndex

\* C9: a search that overlapped a rebuild (the embedding service in order) and
\* returned chunks from the vector index had searched an index that corresponds,
\* position by position, to the chunk list it had read.
C9_SearchSeesOnePair ==
    \A t \in Threads :
        (SearchDone(t) /\ th[t].via = "index" /\ th[t].overlapped /\ th[t].healthy)
            => th[t].aligned

\* C10: a search (of an index that matches its chunk list, the embedding service
\* in order) in which no neighbour survived the relevance filter returns what its
\* caller reads as no context: not a list of chunks.
C10_NoRelevantContextSignal ==
    \A t \in Threads :
        (SearchDone(t) /\ th[t].via = "no_relevant" /\ th[t].aligned /\ th[t].healthy)
            => NoContexts(th[t].ret)

\* C11: a rebuild that read a corpus yielding zero chunks (the corpus unchanged
\* during the call) completes: update_embeddings reports the build done.
C11_ZeroChunkBuildCompletes ==
    \A t \in Threads :
        (/\ UpdateDone(t) /\ th[t].embedded /\ th[t].stable
         /\ corpus.exists /\ Len(SplitChunks(corpus.text)) = 0)
            => th[t].result = TRUE

\* the neighbours a finished search was given by the index, and those it kept
NeighboursOf(t) == IndexSearch(index, th[t].qvec, th[t].top_k)
HitsOf(t) == RelevantNeighbours(NeighboursOf(t))

\* C12: every search returns a value to its caller, a list, whatever failed in
\* it: the embedding call, the index search or the mapping to chunks.
C12_SearchNeverRaises ==
    \A t \in Threads :
        SearchDone(t) =>
            /\ th[t].via \in {"empty_cache", "index", "no_relevant", "error"}
            /\ th[t].ret \in Seq(ChunkTexts \cup {fallback_chunks[i] : i \in 1..Len(fallback_chunks)})

\* a search whose mapping to chunks (or index search) failed, with a failed
\* query embedding, ended with the fallback list
C12_Witness ==
    \E t \in Threads :
        /\ SearchDone(t) /\ th[t].via = "error" /\ Len(th[t].ret) > 0
        /\ th[t].qvec = ZeroVec

\* C13: a search that ended without a failure returned exactly the chunks of the
\* neighbours whose distance does not exceed the threshold.
C13_KeepsUpToThreshold ==
    \A t \in Threads :
        (SearchDone(t) /\ th[t].via \in {"index", "no_relevant"}) =>
            LET within == SelectSeq(NeighboursOf(t),
                                    LAMBDA n : n.pos # -1 /\ n.dist <= RelevanceThreshold)
            IN  Len(within) > 0 =>
                    /\ th[t].via = "index"
                    /\ th[t].ret = [i \in 1..Len(within) |->
                                       Subscript(embeddings_cache.chunks, within[i].pos)]

\* C14: the chunks a search returns from the index are those of the kept
\* neighbours, in ascending order of distance to the query; being a function of
\* the query vector and the index, the order is the same at every call.
C14_AscendingByDistance ==
    \A t \in Threads :
        (SearchDone(t) /\ th[t].via = "index") =>
            /\ th[t].ret = [i \in 1..Len(HitsOf(t)) |->
                               Subscript(embeddings_cache.chunks, HitsOf(t)[i].pos)]
            /\ \A i, j \in 1..Len(HitsOf(t)) :
                    i < j => HitsOf(t)[i].dist <= HitsOf(t)[j].dist

\* a search returned two chunks at different distances, the nearer one stored
\* after the farther one in the index
C14_Witness ==
    \E t \in Threads :
        /\ SearchDone(t) /\ th[t].via = "index" /\ Len(th[t].ret) = 2
        /\ HitsOf(t)[1].dist < HitsOf(t)[2].dist
        /\ HitsOf(t)[1].pos > HitsOf(t)[2].pos

\* the signatures of the sentences of a text, and the first of the contexts
\* holding a sentence of a given signature
SignaturesIn(text) ==
    LET ss == SentencesOf(text) IN { Signature(ss[i]) : i \in 1..Len(ss) }
FirstContext(sig, contexts) ==
    SetMin({ c \in 1..Len(contexts) : sig \in SignaturesIn(contexts[c]) })
DedupDone == fcall.fn = "_format_and_deduplicate_context" /\ fcall.pc = "done"

\* C15: the deduplicated context holds every sentence of the input contexts, each
\* exactly once under the signature (lower-cased, whitespace collapsed), in the
\* section of the first context that contains it, the sections in input order.
C15_EachSentenceOnce ==
    DedupDone =>
        LET contexts == fcall.arg
            sents == SentencesOf(fcall.out)
            secs == SelectSeq(Split(fcall.out, <<"\n", "\n">>), NonEmpty)
            from(k) == { FirstContext(sig, contexts) : sig \in SignaturesIn(secs[k]) }
        IN  /\ \A i, j \in 1..Len(sents) :
                   i # j => Signature(sents[i]) # Signature(sents[j])
            /\ SignaturesIn(fcall.out) = UNION { SignaturesIn(contexts[c]) : c \in 1..Len(contexts) }
            /\ \A k \in 1..Len(secs) :
                   LET kept == SentencesOf(secs[k])
                       source == SentencesOf(contexts[SetMin(from(k))])
                   IN  /\ Cardinality(from(k)) = 1
                       /\ \A s \in 1..Len(kept) : \E n \in 1..Len(source) : source[n] = kept[s]
            /\ \A k, l \in 1..Len(secs) : k < l => SetMin(from(k)) < SetMin(from(l))

\* two contexts held the same sentence, written differently, and the output has
\* it once, as the first context wrote it
C15_Witness ==
    /\ DedupDone /\ Len(fcall.arg) = 2
    /\ fcall.arg[1] = <<"A", " ", " ", "a">>
    /\ fcall.arg[2] = <<"a", " ", "a", ".">>
    /\ fcall.out = <<"A", " ", " ", "a", ".">>

GenerateDone == fcall.fn = "_generate_embeddings" /\ fcall.pc = "done"

\* C16: _generate_embeddings returns one vector per input text, of the index
\* dimension, in input order: the service's vectors when it answered every text,
\* and as many vectors still when it failed at one.
C16_OneVectorPerText ==
    GenerateDone =>
        /\ Len(fcall.out) = Len(fcall.arg.texts)
        /\ \A i \in 1..Len(fcall.out) :
               /\ Len(fcall.out[i].vec) = Len(ZeroVec)
               /\ fcall.out[i].of = fcall.arg.texts[i]
               /\ fcall.arg.failAt = 0 => fcall.out[i].vec = ServiceVec(fcall.arg.texts[i])

\* the service failed at the second of three texts and three vectors came back
C16_Witness ==
    /\ GenerateDone /\ Len(fcall.arg.texts) = 3 /\ fcall.arg.failAt = 2
    /\ Len(fcall.out) = 3

\* C17: when the service answers a batch with fewer vectors than it was sent
\* chunks (and both files can be written), embed_in_DB fails the call and
\* persists nothing.
C17_ShortAnswerFailsTheCall ==
    (/\ fcall.fn = "embed_in_DB" /\ fcall.pc = "done"
     /\ ~fcall.arg.response.raises /\ fcall.arg.indexOk /\ fcall.arg.metaOk
     /\ fcall.arg.response.count < Len(fcall.arg.docs))
        => /\ fcall.out.ret = "none"
           /\ ~fcall.out.index_file.written
           /\ ~fcall.out.metadata_file.written

UpdateChunkDone == fcall.fn = "update_embeddings.chunks" /\ fcall.pc = "done"
InitChunkDone == fcall.fn = "initialize_embeddings.chunks" /\ fcall.pc = "done"

\* a is b with some elements left out
RECURSIVE IsSubsequence(_, _)
IsSubsequence(a, b) ==
    IF Len(a) = 0 THEN TRUE
    ELSE IF Len(b) = 0 THEN FALSE
    ELSE IF Head(a) = Head(b) THEN IsSubsequence(Tail(a), Tail(b))
    ELSE IsSubsequence(a, Tail(b))

\* chunks are made of the segments: each non-empty and not under the floor, in
\* the order of the segments, no segment under the floor among them
ChunksRespectFloor(chunks, segments, floor) ==
    /\ \A i \in 1..Len(chunks) : NonEmpty(chunks[i]) /\ StrLen(chunks[i]) >= floor
    /\ IsSubsequence(chunks, segments)
    /\ \A j \in 1..Len(segments) :
           StrLen(segments[j]) < floor => \A i \in 1..Len(chunks) : chunks[i] # segments[j]

\* C18: every chunk of a chunking pass (update_embeddings, initialize_embeddings)
\* is non-empty and not shorter than the pass's floor, the chunks keep the order
\* of their segments, and the segments under the floor are left out.
C18_ChunksRespectFloor ==
    /\ UpdateChunkDone =>
           ChunksRespectFloor(fcall.out, StrippedSegments(fcall.arg), MinChunkLen)
    /\ InitChunkDone =>
           ChunksRespectFloor(fcall.out, CleanedSections(fcall.arg), InitMinChunkLen)

\* a text of three paragraphs, the middle one under the floor: two chunks
C18_Witness ==
    /\ UpdateChunkDone
    /\ fcall.arg = <<"L", "\n", "\n", "S", "\n", "\n", "L">>
    /\ fcall.out = << <<"L">>, <<"L">> >>

\* C19: every chunk of a chunking pass is whitespace-normalized: trimmed, and
\* with every run of spaces or line breaks inside it collapsed to one space.
C19_ChunksWhitespaceNormalized ==
    (UpdateChunkDone \/ InitChunkDone) =>
        \A i \in 1..Len(fcall.out) : fcall.out[i] = Join(SplitWords(fcall.out[i]), <<" ">>)

ProcessQueryDone == fcall.fn = "process_query" /\ fcall.pc = "done"

\* C20: process_query always returns a QueryResponse; when the generator call
\* failed, or the query made a step throw, it is a fixed message with status
\* no_data and empty source_info, with nothing of the exception in it.
C20_ProcessQueryNeverRaises ==
    ProcessQueryDone =>
        /\ ~fcall.out.raised
        /\ fcall.out.status \in {"success", "no_data"}
        /\ (fcall.arg.completion # "text" \/ fcall.arg.query = "NoneQuery") =>
               /\ fcall.out.status = "no_data"
               /\ fcall.out.source_info = {}
               /\ fcall.out.response \in {<<"fallback message">>, <<"no data message">>}
        /\ fcall.arg.query = "NoneQuery" => fcall.out = _generate_fallback_response

\* the generator raised on a query that had passed every test before it, and
\* the caller got the fallback response
C20_Witness ==
    /\ ProcessQueryDone
    /\ fcall.arg.completion = "raises" /\ fcall.arg.query = "qr"
    /\ fcall.arg.contexts = <<"pr">>
    /\ fcall.out = _generate_fallback_response

\* C22: an index of placeholder vectors is never recorded as the snapshot of a
\* corpus: whenever the index file and a cache document carrying the fingerprint
\* of the present corpus are on disk, the index file holds no placeholder vector, so that a later update_embeddings
\* finds the corpus stale and embeds it again.
C22_PlaceholdersNeverPersisted ==
    (/\ disk_index.state = "ok" /\ disk_cache.state = "ok"
     /\ disk_cache.data.file_hash = _compute_file_hash(corpus)) =>
        \A i \in 1..Len(disk_index.vecs) : disk_index.vecs[i].vec # ZeroVec

\* C23: every chunk a search returns from the index is the chunk at the
\* position of a real neighbour: there are no more of them than the index gave
\* real neighbours, the padding of the result (position -1) stands for none of
\* them, and each position lies inside the chunk list.
C23_OnlyRealNeighbours ==
    \A t \in Threads :
        (SearchDone(t) /\ th[t].via = "index") =>
            LET real == SelectSeq(NeighboursOf(t), LAMBDA n : n.pos \in 1..Len(index))
                chunks == embeddings_cache.chunks
            IN  /\ Len(th[t].ret) <= Len(real)
                /\ \E kept \in SUBSET (1..Len(real)) :
                      /\ Cardinality(kept) = Len(th[t].ret)
                      /\ \A j \in kept : real[j].pos \in 1..Len(chunks)
                      /\ \A i \in 1..Len(th[t].ret) :
                            \E j \in kept :
                               /\ Cardinality({m \in kept : m <= j}) = i
                               /\ th[t].ret[i] = chunks[real[j].pos]

\* a search asked for more neighbours than the index holds vectors, and
\* returned the chunk of every vector of the index
C23_Witness ==
    \E t \in Threads :
        /\ SearchDone(t) /\ th[t].via = "index"
        /\ th[t].top_k > Len(index)
        /\ \E i \in 1..Len(NeighboursOf(t)) : NeighboursOf(t)[i] = NoNeighbour
        /\ Len(th[t].ret) = Len(index)

\* C30: constructing HospitalGPT on a data file that is missing or unreadable
\* succeeds, with empty hospital data, and every process_query on such an
\* instance returns a dictionary with an 'error' key.
C30_MissingDataFileIsTolerated ==
    /\ (/\ fcall.fn = "HospitalGPT" /\ fcall.pc \in {"constructed", "raised"}
        /\ fcall.arg.data_file.state # "ok") =>
            /\ ~fcall.out.raised
            /\ fcall.out.value.hospital_data = {}
    /\ (/\ fcall.fn = "HospitalGPT.process_query" /\ fcall.pc = "done"
        /\ fcall.arg.self.data_file.state # "ok") =>
            HasErrorKey(fcall.out)

\* the messages of a list, and those of the stored conversation id
MessagesIn(messages) == { messages[i] : i \in 1..Len(messages) }
StoredMessages(id) == conversations[id].doc.messages

HistoryDone(t) ==
    cm[t].op = "get_conversation_history" /\ cm[t].pc = "done" /\ cm[t].raised = ""

\* C26: for every limit >= 0, get_conversation_history returns at most limit
\* messages, and they are the last ones of the conversation, in the order in
\* which they were added.
C26_HistoryIsLastLimit ==
    \A t \in Threads :
        HistoryDone(t) =>
            LET all == cm[t].doc.messages
                n == Len(cm[t].ret)
            IN  /\ n <= cm[t].limit
                /\ n <= Len(all)
                /\ cm[t].ret = SubSeq(all, Len(all) - n + 1, Len(all))

\* C27: add_message, get_conversation_history and update_conversation_context
\* on an identifier that has no file raise ValueError at once, and the step
\* leaves every conversation file as it was.
C27_UnknownConversationRaises ==
    [][\A t \in Threads :
          (/\ cm[t].pc = "idle" /\ cm'[t].pc # "idle"
           /\ cm'[t].op \in {"add_message", "get_conversation_history",
                            "update_conversation_context"}
           /\ conversations[cm'[t].id].state = "none") =>
              /\ cm'[t].pc = "done"
              /\ cm'[t].raised = "ValueError"
              /\ conversations' = conversations]_vars

\* add_message on an identifier nobody created has raised ValueError, while a
\* conversation with a message in it is stored beside it
C27_Witness ==
    \E t \in Threads :
        /\ cm[t].op = "add_message" /\ cm[t].pc = "done" /\ cm[t].raised = "ValueError"
        /\ cm[t].id = NeverCreated
        /\ conversations[NeverCreated].state = "none"
        /\ \E id \in ConvIds : Len(StoredMessages(id)) > 0

AddDone(t) == cm[t].op = "add_message" /\ cm[t].pc = "done" /\ cm[t].raised = ""

\* C28: when two add_message calls on one conversation have interleaved (each
\* loaded the conversation before the other saved it) and both have returned,
\* the stored conversation holds both messages and every message either call
\* found there.
C28_NoMessageLost ==
    \A t, u \in Threads :
        (/\ t # u /\ AddDone(t) /\ AddDone(u) /\ cm[t].id = cm[u].id
         /\ cm[t].msg \notin MessagesIn(cm[u].doc.messages)
         /\ cm[u].msg \notin MessagesIn(cm[t].doc.messages)) =>
            /\ conversations[cm[t].id].state = "ok"
            /\ {cm[t].msg, cm[u].msg} \subseteq MessagesIn(StoredMessages(cm[t].id))
            /\ MessagesIn(cm[t].before.doc.messages) \cup MessagesIn(cm[u].before.doc.messages)
                  \subseteq MessagesIn(StoredMessages(cm[t].id))

HandleQueryDone(t) == cm[t].op = "handle_query" /\ cm[t].pc = "done"

\* C29: handle_query with a conversation manager, on a stored conversation,
\* appends to the log exactly when it does not ask for clarification.  A query
\* that, lower-cased and with its punctuation removed, has fewer than three
\* words or holds 'something', 'anything' or 'whatever' gets the status
\* clarification_needed and the log is as before.  Any other query gets the
\* answer, and the log is as before plus two messages: the user's query as it
\* was typed, then the assistant's response.
C29_LogsExactlyWhenAnswering ==
    \A t \in Threads :
        (HandleQueryDone(t) /\ cm[t].manager /\ cm[t].before.state = "ok") =>
            LET q == cm[t].query
                words == SplitWords(SelectSeq(q, LAMBDA c : c # "?"))
                ambiguous == \/ Len(words) < 3
                             \/ \E i \in 1..Len(q) : q[i] \in {"something", "SOMETHING"}
                before == cm[t].before.doc.messages
                now == StoredMessages(cm[t].id)
            IN  /\ cm[t].raised = ""
                /\ ambiguous =>
                      /\ cm[t].ret.status = "clarification_needed"
                      /\ conversations[cm[t].id] = cm[t].before
                /\ ~ambiguous =>
                      /\ cm[t].ret.status = "success"
                      /\ conversations[cm[t].id].state = "ok"
                      /\ Len(now) = Len(before) + 2
                      /\ SubSeq(now, 1, Len(before)) = before
                      /\ now[Len(before) + 1].role = "user"
                      /\ now[Len(before) + 1].content = q
                      /\ now[Len(before) + 2].role = "assistant"
                      /\ now[Len(before) + 2].content = cm[t].ret.response

\* a query of three words typed with an upper-case letter and a question mark
\* was answered and logged as typed, after an earlier message
C29_Witness ==
    \E t \in Threads :
        /\ HandleQueryDone(t) /\ cm[t].manager /\ cm[t].raised = ""
        /\ cm[t].ret.status = "success"
        /\ cm[t].query # cm[t].processed_query
        /\ Len(cm[t].before.doc.messages) = 1
        /\ Len(StoredMessages(cm[t].id)) = 3

ResponseDone(path) == fcall.fn = path /\ fcall.pc = "done"

\* C21: no response of the server carries the text of an exception: a body
\* that reports an error carries a message written in the program, never
\* str(e) of an exception an internal failure raised.  (What becomes of the
\* errors the endpoints raise on purpose is C24's subject.)
C21_NoRawExceptionText ==
    (fcall.pc = "done" /\ fcall.out.status_code # 200) =>
        fcall.out.content.message[1] # "str(exception)"

\* C24: an HTTP error raised on purpose inside an endpoint keeps its status:
\* /chat with a blank message is answered 400 "Message cannot be empty", and
\* /update-hospital-data with a path to no file 404 "File not found".
C24_DeliberateStatusKept ==
    /\ (ResponseDone("/chat") /\ StripStr(fcall.arg.message) = <<>>) =>
            /\ fcall.out.status_code = 400
            /\ fcall.out.content.message = Fixed("Message cannot be empty")
    /\ (ResponseDone("/update-hospital-data") /\ ~fcall.arg.file.exists
        /\ fcall.arg.file_path # "None") =>
            /\ fcall.out.status_code = 404
            /\ fcall.out.content.message = Fixed("File not found")

\* C25: /update-hospital-data with a file_path regenerates the embeddings from
\* the file at that path: when the call succeeds and reports embeddings_updated
\* = true for a path to another file than the instance's own data file, the
\* index holds the chunks of that file.  (The chunk list, and the report for an
\* unchanged file, rest on C1 and C3 and are settled there.)
C25_UpdateUsesGivenFile ==
    (/\ ResponseDone("/update-hospital-data") /\ fcall.out.status_code = 200
     /\ fcall.arg.file_path = "other"
     /\ fcall.out.content.embeddings_updated) =>
        Indexed(index) = SplitChunks(fcall.arg.file.text)

====
